---- MODULE Spec2Model ----
(***************************************************************************)
(* Saved-object import: createSavedObjects(objects, accumulatedErrors,     *)
(* options) and the bulkCreate mock it drives, as exercised by the         *)
(* #createSavedObjects suite.  One invocation per behaviour: the inputs    *)
(* are drawn in Init, the part of the function before its single await is  *)
(* one action, the store's settlement of the call is a second, and the     *)
(* continuation after the await is a third.                                *)
(***************************************************************************)
EXTENDS Integers, Sequences, FiniteSets, TLC

\* ------------------------------------------------------------------ state
VARIABLES objects, accumulatedErrors, options, pc, bulkCreateCalls,
          response, rejection, order, remappedResults, result, thrown

vars == << objects, accumulatedErrors, options, pc, bulkCreateCalls,
           response, rejection, order, remappedResults, result, thrown >>

\* ---------------------------------------------------------------- bounds
MaxObjs == 2
MaxErrs == 2

\* ------------------------------------------------------------- fixtures
Undefined == "undefined"

MULTI_NS_TYPE == "multi"
OTHER_TYPE == "other"

\* The three references createObject gives every import object.
ObjectReferences ==
  << [name |-> "name-1", type |-> "other-type", id |-> "other-id"],
     [name |-> "name-2", type |-> MULTI_NS_TYPE, id |-> "id-1"],
     [name |-> "name-3", type |-> MULTI_NS_TYPE, id |-> "id-3"] >>

createObject(type, id, originId) ==
  [type |-> type, id |-> id, attributes |-> "{}",
   references |-> ObjectReferences, originId |-> originId]

ObjectIds == {"id-3", "id-8"}
OriginIds == {Undefined, "originId-c"}

\* Import objects of both types, with and without an originId.
ImportObjects ==
  { createObject(MULTI_NS_TYPE, i, o) : i \in ObjectIds, o \in OriginIds }
    \cup { createObject(OTHER_TYPE, "id-3", Undefined),
           createObject(OTHER_TYPE, "id-8", "originId-c") }

Key(o) == <<o.type, o.id>>

\* importIdMap: the suite's entries for obj3 (omitOriginId set or not) and
\* obj8 (never omitOriginId), each one present or absent.
importId3 == "id-foo"
importId8 == "id-baz"

NoEntries == [k \in {} |-> [id |-> Undefined, omitOriginId |-> FALSE]]

ImportIdMaps ==
  { m3 @@ m8 :
      m3 \in {NoEntries}
               \cup { (<<MULTI_NS_TYPE, "id-3">> :> [id |-> importId3, omitOriginId |-> b]) :
                        b \in BOOLEAN },
      m8 \in { NoEntries,
               (<<MULTI_NS_TYPE, "id-8">> :> [id |-> importId8, omitOriginId |-> FALSE]) } }

resolvableErrors ==
  { [type |-> "foo", id |-> "foo-id", error |-> [type |-> "conflict"]],
    [type |-> "bar", id |-> "bar-id", error |-> [type |-> "ambiguous_conflict"]],
    [type |-> "baz", id |-> "baz-id", error |-> [type |-> "missing_references"]] }

unresolvableErrors ==
  { [type |-> "qux", id |-> "qux-id", error |-> [type |-> "unsupported_type"]],
    [type |-> "quux", id |-> "quux-id", error |-> [type |-> "unknown"]] }

ImportErrors == resolvableErrors \cup unresolvableErrors

setupOptions(map, namespace, overwrite) ==
  [savedObjectsClient |-> "savedObjectsClientMock", importIdMap |-> map,
   namespace |-> namespace, overwrite |-> overwrite]

Namespaces == {Undefined, "some-namespace"}

\* ---------------------------------------------------------------- helpers
Range(s) == { s[i] : i \in DOMAIN s }

SeqsUpTo(S, n) == UNION { [1..k -> S] : k \in 0..n }

\* Batches: ids are unique within a type.
Batches ==
  { b \in SeqsUpTo(ImportObjects, MaxObjs) :
      \A i, j \in DOMAIN b : i # j => Key(b[i]) # Key(b[j]) }

\* ------------------------------------------------- createSavedObjects
\* Mutant: missing_references is not treated as resolvable.
ResolvableTypes_NoMissingReferences == {"conflict", "ambiguous_conflict"}

\* Mutant: unknown errors are treated as resolvable too.
ResolvableTypes_WithUnknown ==
  {"conflict", "ambiguous_conflict", "missing_references", "unknown"}

\* Error kinds that stop the import before anything is created.
ResolvableTypes == { e.error.type : e \in resolvableErrors }

HasResolvableError(errors) ==
  \E i \in DOMAIN errors : errors[i].error.type \in ResolvableTypes

\* Mutant: references are left as imported.
RewriteReference_Verbatim(ref, map) == ref

\* A reference to an object that has an importIdMap entry is created with
\* the entry's id; name, type and position are kept.
RewriteReference(ref, map) ==
  IF <<ref.type, ref.id>> \in DOMAIN map
  THEN [ref EXCEPT !.id = map[<<ref.type, ref.id>>].id]
  ELSE ref

RewriteReferences(refs, map) ==
  [i \in DOMAIN refs |-> RewriteReference(refs[i], map)]

\* Mutant: the object's own originId is kept whatever the entry says.
OriginIdFor_KeepOwn(obj, entry) == obj.originId

\* The originId an object covered by an importIdMap entry is created with.
OriginIdFor(obj, entry) ==
  IF entry.omitOriginId THEN Undefined
  ELSE IF obj.originId # Undefined THEN obj.originId
  ELSE obj.id

\* The document created for one import object.
TransformObject(obj, map) ==
  IF Key(obj) \in DOMAIN map
  THEN [obj EXCEPT !.id = map[Key(obj)].id,
                   !.originId = OriginIdFor(obj, map[Key(obj)]),
                   !.references = RewriteReferences(obj.references, map)]
  ELSE [obj EXCEPT !.references = RewriteReferences(obj.references, map)]

ObjectsToCreate(objs, map) ==
  [i \in DOMAIN objs |-> TransformObject(objs[i], map)]

\* Mutant: the whole options object is forwarded.
BulkCreateOptions_All(opts) == opts

\* The options argument of bulkCreate.
BulkCreateOptions(opts) ==
  [namespace |-> opts.namespace, overwrite |-> opts.overwrite]

\* ------------------------------------------------------ bulkCreate mock
ConflictPayload(type, id) ==
  [statusCode |-> 409, error |-> "Conflict", message |-> <<type, id>>]

\* getResultMock.success / conflict / unresolvableConflict, for a document
\* the store was asked to create.  An absent originId is originId = Undefined.
ResultMock(kind, doc, namespace) ==
  CASE kind = "success" ->
         [type |-> doc.type, id |-> doc.id, attributes |-> doc.attributes,
          references |-> doc.references, originId |-> doc.originId,
          version |-> "some-version", updated_at |-> "some-date",
          namespaces |-> << IF namespace = Undefined THEN "default" ELSE namespace >>]
    [] kind = "conflict" ->
         [type |-> doc.type, id |-> doc.id,
          error |-> ConflictPayload(doc.type, doc.id)]
    [] kind = "unresolvableConflict" ->
         [type |-> doc.type, id |-> doc.id,
          error |-> [metadata |-> [isNotOverwritable |-> TRUE]]
                      @@ ConflictPayload(doc.type, doc.id)]

ResultKinds == {"success", "conflict", "unresolvableConflict"}

Faults == {"transport-fault", "storage-fault"}

Identity(n) == [i \in 1..n |-> i]

Orderings(n) ==
  { p \in [1..n -> 1..n] : \A i, j \in 1..n : i # j => p[i] # p[j] }

\* ------------------------------------------------------- result mapping
HasError(r) == "error" \in DOMAIN r

\* Mutant: the outcome keeps the id the store used.
RemapResult_KeepStoreId(res, obj, doc) == res

\* One outcome, relabelled with the import id of its object.
RemapResult(res, obj, doc) ==
  IF doc.id # obj.id
  THEN [destinationId |-> doc.id] @@ [res EXCEPT !.id = obj.id]
  ELSE res

RemapResults(results, objs, docs) ==
  [i \in DOMAIN results |-> RemapResult(results[i], objs[i], docs[i])]

\* extractErrors: one import error per outcome that carries an error.
ImportError(r) ==
  IF "destinationId" \in DOMAIN r
  THEN [type |-> r.type, id |-> r.id, error |-> r.error,
        destinationId |-> r.destinationId]
  ELSE [type |-> r.type, id |-> r.id, error |-> r.error]

extractErrors(results, objs) ==
  LET failed == SelectSeq(results, HasError)
  IN  [i \in DOMAIN failed |-> ImportError(failed[i])]

IsCreated(r) == ~HasError(r)

\* Mutant: failed outcomes are dropped from the result.
getExpectedResults_NoErrors(remapped, objs) ==
  [createdObjects |-> SelectSeq(remapped, IsCreated), errors |-> <<>>]

\* Mutant: the prior errors are returned ahead of the outcomes' errors.
getExpectedResults_WithPriorErrors(remapped, objs) ==
  [createdObjects |-> SelectSeq(remapped, IsCreated),
   errors |-> accumulatedErrors \o extractErrors(remapped, objs)]

\* The value returned: the outcomes without an error, and the errors.
getExpectedResults(remapped, objs) ==
  [createdObjects |-> SelectSeq(remapped, IsCreated),
   errors |-> extractErrors(remapped, objs)]

\* Mutant: the early exit hands the prior errors back.
EmptyResult_WithPriorErrors ==
  [createdObjects |-> <<>>, errors |-> accumulatedErrors]

\* What the function returns when it exits early.
EmptyResult == [createdObjects |-> <<>>, errors |-> <<>>]

\* The value of result while nothing has been returned.
NotReturned == [createdObjects |-> <<>>, errors |-> <<>>]

Init ==
  /\ objects \in Batches
  /\ accumulatedErrors \in SeqsUpTo(ImportErrors, MaxErrs)
  /\ options \in { setupOptions(m, n, w) :
                     m \in ImportIdMaps, n \in Namespaces, w \in BOOLEAN }
  /\ pc = "start"
  /\ bulkCreateCalls = <<>>
  /\ response = <<>>
  /\ rejection = Undefined
  /\ order = <<>>
  /\ remappedResults = <<>>
  /\ result = NotReturned
  /\ thrown = Undefined

\* exit early if there are no objects to create
ExitNoObjects ==
  /\ pc = "start"
  /\ objects = <<>>
  /\ result' = EmptyResult
  /\ pc' = "returned"
  /\ UNCHANGED << objects, accumulatedErrors, options, bulkCreateCalls,
                  response, rejection, order, remappedResults, thrown >>

\* exit early if there are any resolvable errors
ExitResolvableErrors ==
  /\ pc = "start"
  /\ objects # <<>>
  /\ HasResolvableError(accumulatedErrors)
  /\ result' = EmptyResult
  /\ pc' = "returned"
  /\ UNCHANGED << objects, accumulatedErrors, options, bulkCreateCalls,
                  response, rejection, order, remappedResults, thrown >>

\* transform the batch and call bulkCreate; the function then awaits
CallBulkCreate ==
  /\ pc = "start"
  /\ objects # <<>>
  /\ ~HasResolvableError(accumulatedErrors)
  /\ bulkCreateCalls' =
       Append(bulkCreateCalls,
              [objects |-> ObjectsToCreate(objects, options.importIdMap),
               options |-> BulkCreateOptions(options)])
  /\ pc' = "awaiting"
  /\ UNCHANGED << objects, accumulatedErrors, options, response, rejection,
                  order, remappedResults, result, thrown >>

Settle(kinds, p) ==
  LET docs == bulkCreateCalls[Len(bulkCreateCalls)].objects
      ns == bulkCreateCalls[Len(bulkCreateCalls)].options.namespace
  IN  /\ response' = [k \in DOMAIN docs |-> ResultMock(kinds[p[k]], docs[p[k]], ns)]
      /\ order' = p
      /\ pc' = "resolved"
      /\ UNCHANGED << objects, accumulatedErrors, options, bulkCreateCalls,
                      rejection, remappedResults, result, thrown >>

\* the store answers: one outcome per document, in the order submitted
BulkCreateResolves ==
  /\ pc = "awaiting"
  /\ \E kinds \in [1..Len(objects) -> ResultKinds] :
       Settle(kinds, Identity(Len(objects)))

\* the store answers: one outcome per document, in another order
BulkCreateResolvesReordered ==
  /\ pc = "awaiting"
  /\ \E kinds \in [1..Len(objects) -> ResultKinds] :
       \E p \in Orderings(Len(objects)) \ {Identity(Len(objects))} :
         Settle(kinds, p)

\* the call itself fails
BulkCreateRejects ==
  /\ pc = "awaiting"
  /\ \E f \in Faults : rejection' = f
  /\ pc' = "rejected"
  /\ UNCHANGED << objects, accumulatedErrors, options, bulkCreateCalls,
                  response, order, remappedResults, result, thrown >>

\* after the await: remap the outcomes, split them, return
ReturnResults ==
  /\ pc = "resolved"
  /\ remappedResults' =
       RemapResults(response, objects, bulkCreateCalls[Len(bulkCreateCalls)].objects)
  /\ result' = getExpectedResults(remappedResults', objects)
  /\ pc' = "returned"
  /\ UNCHANGED << objects, accumulatedErrors, options, bulkCreateCalls,
                  response, rejection, order, thrown >>

\* after the await: the rejection leaves the function as it came
PropagateFault ==
  /\ pc = "rejected"
  /\ thrown' = rejection
  /\ pc' = "thrown"
  /\ UNCHANGED << objects, accumulatedErrors, options, bulkCreateCalls,
                  response, rejection, order, remappedResults, result >>

Next ==
  \/ ExitNoObjects
  \/ ExitResolvableErrors
  \/ CallBulkCreate
  \/ BulkCreateResolves
  \/ BulkCreateRejects
  \/ ReturnResults
  \/ PropagateFault

Spec == Init /\ [][Next]_vars

\* The same program against a store that may answer in any order.
NextReorder ==
  \/ ExitNoObjects
  \/ ExitResolvableErrors
  \/ CallBulkCreate
  \/ BulkCreateResolves
  \/ BulkCreateResolvesReordered
  \/ BulkCreateRejects
  \/ ReturnResults
  \/ PropagateFault

SpecReorder == Init /\ [][NextReorder]_vars
\* ================================================================ claims
Called == bulkCreateCalls # <<>>

LastCall == bulkCreateCalls[Len(bulkCreateCalls)]

Gated ==
  \E i \in DOMAIN accumulatedErrors :
    accumulatedErrors[i].error.type
      \in {"conflict", "ambiguous_conflict", "missing_references"}

\* C1 -- Resolvable-error gate: whenever the prior errors hold at least one
\* conflict, ambiguous_conflict or missing_references error, alone or mixed
\* with unresolvable ones, bulkCreate is never invoked, whatever the batch,
\* the importIdMap and the options are.
C1_ResolvableErrorGate ==
  Gated => /\ bulkCreateCalls = <<>>
           /\ pc \in {"start", "returned"}

\* A gated invocation of a non-empty batch has returned; its prior errors
\* mix a resolvable and an unresolvable error.
C1_Witness ==
  /\ pc = "returned"
  /\ Len(objects) = 2
  /\ Len(accumulatedErrors) = 2
  /\ accumulatedErrors[1].error.type = "unknown"
  /\ accumulatedErrors[2].error.type = "missing_references"
  /\ bulkCreateCalls = <<>>

\* C2 -- Unresolvable-error pass-through: once an invocation with a
\* non-empty batch and no resolvable prior error has left its first step,
\* bulkCreate has been invoked exactly once, and it is never invoked a
\* second time.
C2_CalledExactlyOnce ==
  /\ Len(bulkCreateCalls) <= 1
  /\ (objects # <<>> /\ ~Gated /\ pc # "start") => Len(bulkCreateCalls) = 1

\* An invocation whose prior errors are both unresolvable has returned
\* after one call.
C2_Witness ==
  /\ pc = "returned"
  /\ Len(accumulatedErrors) = 2
  /\ accumulatedErrors[1].error.type = "unsupported_type"
  /\ accumulatedErrors[2].error.type = "unknown"
  /\ Len(bulkCreateCalls) = 1

\* C3 -- Empty batch: with no objects the function returns exactly
\* {createdObjects: [], errors: []} and bulkCreate is never invoked, for
\* every importIdMap, options and prior errors.
C3_EmptyBatch ==
  objects = <<>> =>
    /\ bulkCreateCalls = <<>>
    /\ pc \in {"start", "returned"}
    /\ pc = "returned" => result = [createdObjects |-> <<>>, errors |-> <<>>]

\* An empty batch has returned although prior errors were handed in.
C3_Witness ==
  /\ objects = <<>>
  /\ pc = "returned"
  /\ Len(accumulatedErrors) = 2
  /\ DOMAIN options.importIdMap # {}

\* What the document d sent for import object o must be under map.
C4_Sent(o, d, map) ==
  /\ d.type = o.type
  /\ d.attributes = o.attributes
  /\ IF <<o.type, o.id>> \notin DOMAIN map
     THEN d.id = o.id /\ d.originId = o.originId
     ELSE /\ d.id = map[<<o.type, o.id>>].id
          /\ d.originId =
               IF map[<<o.type, o.id>>].omitOriginId THEN Undefined
               ELSE IF o.originId # Undefined THEN o.originId ELSE o.id

\* C4 -- Identifier and originId transform: the documents sent are as many
\* as the objects and in their order; an object without an importIdMap entry
\* keeps id and originId; with an entry that sets omitOriginId it gets the
\* entry's id and no originId; with an entry that does not, it gets the
\* entry's id and its own originId, or its import id when it has none.
\* type and attributes never change.
C4_IdentifierTransform ==
  \A c \in DOMAIN bulkCreateCalls :
    /\ Len(bulkCreateCalls[c].objects) = Len(objects)
    /\ \A i \in DOMAIN objects :
         C4_Sent(objects[i], bulkCreateCalls[c].objects[i], options.importIdMap)

\* A call was made for obj3 (originId, entry with omitOriginId) followed by
\* obj8 (no originId, entry without omitOriginId).
C4_Witness ==
  /\ Called
  /\ Len(objects) = 2
  /\ objects[1] = createObject(MULTI_NS_TYPE, "id-3", "originId-c")
  /\ objects[2] = createObject(MULTI_NS_TYPE, "id-8", Undefined)
  /\ DOMAIN options.importIdMap = {<<MULTI_NS_TYPE, "id-3">>, <<MULTI_NS_TYPE, "id-8">>}
  /\ options.importIdMap[<<MULTI_NS_TYPE, "id-3">>].omitOriginId
  /\ LastCall.objects[1].id = importId3
  /\ LastCall.objects[1].originId = Undefined
  /\ LastCall.objects[2].id = importId8
  /\ LastCall.objects[2].originId = "id-8"
\* The import object and the created document an outcome reports on:
\* order[k] is the position, in the call, of the document outcome k is for.
ObjectOf(k) == objects[order[k]]

DocumentOf(k) == LastCall.objects[order[k]]

Substituted(k) == DocumentOf(k).id # ObjectOf(k).id

Carries(r, k) ==
  /\ r.type = ObjectOf(k).type
  /\ r.id = ObjectOf(k).id
  /\ ("destinationId" \in DOMAIN r) <=> Substituted(k)
  /\ Substituted(k) => r.destinationId = DocumentOf(k).id

Entries == result.createdObjects \o result.errors

\* C5 -- Result remap round-trip: when the store has returned one outcome
\* per document, in the order submitted, every outcome of the result,
\* success or error, carries the import id of the object it reports on; it
\* carries a destinationId, the id used in the create call, exactly when that
\* object was covered by the importIdMap; the outcome of an object that was
\* not covered is the store's outcome unchanged.
C5_RemapRoundTrip ==
  (pc = "returned" /\ Called) =>
    /\ Len(remappedResults) = Len(objects)
    /\ \A k \in DOMAIN remappedResults :
         /\ Carries(remappedResults[k], k)
         /\ Substituted(k) <=> Key(ObjectOf(k)) \in DOMAIN options.importIdMap
         /\ ~Substituted(k) => remappedResults[k] = response[k]
    /\ \A j \in DOMAIN Entries :
         \E k \in DOMAIN remappedResults :
           /\ Carries(Entries[j], k)
           /\ HasError(Entries[j]) <=> HasError(response[k])

\* A covered object failed and an uncovered one was created; both outcomes
\* are in the result under their import ids.
C5_Witness ==
  /\ pc = "returned"
  /\ Len(objects) = 2
  /\ Key(objects[1]) \in DOMAIN options.importIdMap
  /\ Key(objects[2]) \notin DOMAIN options.importIdMap
  /\ Len(result.errors) = 1
  /\ result.errors[1].id = objects[1].id
  /\ result.errors[1].destinationId = importId3
  /\ Len(result.createdObjects) = 1
  /\ result.createdObjects[1].id = objects[2].id
  /\ "destinationId" \notin DOMAIN result.createdObjects[1]

\* C6 -- Options forwarding: the options argument of every bulkCreate call is
\* exactly {namespace, overwrite} of the caller's options, with no other
\* field, for every batch size and with or without a namespace.
C6_OptionsForwarding ==
  \A c \in DOMAIN bulkCreateCalls :
    /\ DOMAIN bulkCreateCalls[c].options = {"namespace", "overwrite"}
    /\ bulkCreateCalls[c].options.namespace = options.namespace
    /\ bulkCreateCalls[c].options.overwrite = options.overwrite

\* A call for two objects was made without a namespace and with overwrite.
C6_Witness ==
  /\ Called
  /\ Len(objects) = 2
  /\ options.namespace = Undefined
  /\ options.overwrite
  /\ LastCall.options = [namespace |-> Undefined, overwrite |-> TRUE]

\* C7 (as claimed) -- References are passed through verbatim: the references
\* of every document sent equal those of its import object, also where a
\* reference names an object that has an importIdMap entry.
C7_ReferencesVerbatim ==
  \A c \in DOMAIN bulkCreateCalls :
    \A i \in DOMAIN objects :
      bulkCreateCalls[c].objects[i].references = objects[i].references

\* C7 (amended) -- The references of every document sent are those of its
\* import object in number, order, name and type; the id of a reference whose
\* type:id has an importIdMap entry is the entry's id, and every other
\* reference is unchanged.
C7_ReferencesRewritten ==
  \A c \in DOMAIN bulkCreateCalls :
    \A i \in DOMAIN objects :
      LET sent == bulkCreateCalls[c].objects[i].references
          refs == objects[i].references
          map == options.importIdMap
      IN  /\ Len(sent) = Len(refs)
          /\ \A n \in DOMAIN refs :
               /\ sent[n].name = refs[n].name
               /\ sent[n].type = refs[n].type
               /\ sent[n].id =
                    IF <<refs[n].type, refs[n].id>> \in DOMAIN map
                    THEN map[<<refs[n].type, refs[n].id>>].id
                    ELSE refs[n].id

\* A document was sent whose reference name-3 names id-foo while name-2
\* still names id-1.
C7_Witness ==
  /\ Called
  /\ <<MULTI_NS_TYPE, "id-3">> \in DOMAIN options.importIdMap
  /\ objects[1].references[3].id = "id-3"
  /\ LastCall.objects[1].references[3].id = importId3
  /\ LastCall.objects[1].references[2].id = "id-1"

AccountedOnce(o) ==
  Cardinality({ j \in DOMAIN Entries :
                  Entries[j].type = o.type /\ Entries[j].id = o.id }) = 1

CompleteResult ==
  /\ pc = "returned"
  /\ Len(Entries) = Len(objects)
  /\ \A i \in DOMAIN objects : AccountedOnce(objects[i])
  /\ \A j \in DOMAIN result.createdObjects : ~HasError(result.createdObjects[j])
  /\ \A j \in DOMAIN result.errors : HasError(result.errors[j])

FatalFault ==
  /\ pc = "thrown"
  /\ Called
  /\ rejection \in Faults
  /\ thrown = rejection
  /\ result = NotReturned

Ended == pc \in {"returned", "thrown"}

PriorErrors == Range(accumulatedErrors)

FailedOutcomes == SelectSeq(response, HasError)

\* C9 (as claimed) -- Unresolvable prior errors remain reported: after a
\* create with only unresolvable prior errors, the errors returned contain
\* those prior errors together with the errors of the outcomes.
C9_PriorErrorsReturned ==
  (pc = "returned" /\ Called) =>
    /\ \A e \in PriorErrors : e \in Range(result.errors)
    /\ Len(result.errors) >= Len(FailedOutcomes)

\* C9 (amended) -- After a create with only unresolvable prior errors, the
\* errors returned are exactly the errors of the bulkCreate outcomes, one per
\* failed outcome and in their order; no prior error is among them.
C9_OnlyOutcomeErrorsReturned ==
  (pc = "returned" /\ Called) =>
    /\ Len(result.errors) = Len(FailedOutcomes)
    /\ \A j \in DOMAIN result.errors :
         /\ result.errors[j].type = FailedOutcomes[j].type
         /\ result.errors[j].error = FailedOutcomes[j].error
    /\ \A e \in PriorErrors : e \notin Range(result.errors)

\* A create with an unknown prior error returned one error, the conflict of
\* its one failed outcome.
C9_Witness ==
  /\ pc = "returned"
  /\ Called
  /\ Len(accumulatedErrors) = 1
  /\ accumulatedErrors[1].error.type = "unknown"
  /\ Len(objects) = 2
  /\ Len(result.errors) = 1
  /\ result.errors[1].error.statusCode = 409

====
